---- MODULE Spec2Model ----
(***************************************************************************)
(* Reference-guided song generation of tnshgarg/amor-soft.                 *)
(*                                                                         *)
(* One song row (a GenerationJob) and the actors that write it:            *)
(*   - POST /api/songs/generate and its detached background task           *)
(*     (generateSongInBackground -> generateCompleteSong ->                *)
(*      pollSongCompletion -> pollTaskCompletion),                         *)
(*   - POST /api/songs/[id]/retry (manual status check),                   *)
(*   - POST check-status (batch status check of the user's stuck songs),   *)
(*   - GET, PATCH, DELETE /api/songs/[id] and the guards of the retry      *)
(*     route, explored on their own under SpecAccess,                      *)
(* with the external services (embedding, drafting, audio creation, audio  *)
(* status) as nondeterministic answers.  Every await of the code is a      *)
(* step boundary: other actors may run between two steps of one actor.     *)
(* Persistence writes succeed (updateSong resolves).                       *)
(*                                                                         *)
(* Reference retrieval (findSimilarLyrics) is modelled as an operator over *)
(* character sequences and explored on its own under SpecRetrieval.        *)
(***************************************************************************)
EXTENDS Integers, Sequences, FiniteSets, TLC

VARIABLES
    song,        \* the songs row: fields of Song, status "absent" before createSong
    pc,          \* position of the background task of the job
    params,      \* the body of the request to POST /api/songs/generate
    gen,         \* locals of generateCompleteSong / its result
    poll,        \* locals of pollTaskCompletion: attempt, lastError, result
    pollLog,     \* history: what the status service answered to the automatic polls
    retry,       \* the manual retry route: position, the row it read, the answer it holds
    batch,       \* the batch check-status route: position, the row it selected, the answer
    reqLog,      \* history: requests issued to the audio services
    fsl,         \* a call of findSimilarLyrics: its inputs, position, queries made, result
    corpus,      \* the rows of lyrics_index
    http,        \* the latest request to a route of /api/songs/[id] and its answer
    clean        \* a call of cleanLyricsResponse: the text given, the text returned

jobVars == <<song, pc, params, gen, poll, pollLog, retry, batch, reqLog, http, clean>>
vars == <<song, pc, params, gen, poll, pollLog, retry, batch, reqLog, fsl, corpus, http, clean>>

----------------------------------------------------------------------------
(* Bounds of the model *)

\* clips in one status response
MaxClips == 2
\* manual requests (retry or check-status) made on the song
MaxManual == 1
\* largest requested match count of a findSimilarLyrics call
MaxCount == 4

(* Program constants *)

\* pollTaskCompletion(taskId, 15, 30000) as called by pollSongCompletion
maxAttempts == 15
\* findSimilarLyrics(theme, 3) as called by generateCompleteSong
GenMatchCount == 3

Null == "null"

----------------------------------------------------------------------------
(* Values *)

\* SQL null of a text column / an absent message
NullMsg == <<>>
\* a null or undefined task id (falsy)
NoTask == <<>>
\* a null integer column
NoDuration == <<>>

Msg(s) == <<s>>

\* String.prototype.includes on a message, by its parts
MsgIncludes(m, part) == \E i \in 1..Len(m) : m[i] = part

\* String.prototype.startsWith on an id, by its parts
StartsWith(id, prefix) == Len(id) > 0 /\ id[1] = prefix

TimedOutMsg == Msg("Song generation timed out")
SunoFailedMsg == Msg("Song generation failed on Suno API")
InvalidResponseMsg == Msg("Invalid response from Suno API")
ApiIssuesMsg ==
    Msg("Song is being generated - Suno API experiencing temporary issues. Please check back later.")
StillGeneratingMsg == Msg("Song is still being generated. Please try again later.")
UnableToCheckMsg ==
    Msg("Unable to check song status due to API issues. Please try again later.")
StartsWithTypeError == Msg("Cannot read properties of undefined (reading 'startsWith')")

\* messages of the errors a status request can throw: fetch rejecting, and
\* getTaskStatus's own throw on a response that is neither 202 nor ok
NetworkError == "fetch failed"
HttpError == "Suno API error (500): Internal Server Error"

Terminal == {"completed", "failed"}

----------------------------------------------------------------------------
(* The audio-status service *)

ClipStates == {"pending", "running", "succeeded", "failed", "queued"}

\* the i-th clip of a response, in state st; duration in tenths of a second
\* (the first clip of a response carries duration 0, the others a fraction)
Clip(i, st) ==
    [ state     |-> st,
      clip_id   |-> <<"clip", ToString(i)>>,
      audio_url |-> "https://cdn1.suno.ai/" \o ToString(i) \o ".mp3",
      video_url |-> "https://cdn1.suno.ai/" \o ToString(i) \o ".mp4",
      image_url |-> "https://cdn1.suno.ai/" \o ToString(i) \o ".jpg",
      duration  |-> (i - 1) * 1805 ]

ClipLists ==
    UNION { { [i \in 1..n |-> Clip(i, sts[i])] : sts \in [1..n -> ClipStates] }
            : n \in 0..MaxClips }

\* what the status endpoint can answer to GET /api/v1/suno/task/<id>
Answers ==
    { [kind |-> k, data |-> <<>>] : k \in {"202", "nodata", "http_error", "network"} }
    \cup { [kind |-> "ok", data |-> d] : d \in ClipLists }

NoResult == [code |-> 0, hasData |-> FALSE, data |-> <<>>, message |-> NullMsg]

\* getTaskStatus: the SunoTaskResponse it returns, or the error it throws
getTaskStatus(ans) ==
    CASE ans.kind = "network" ->
           [threw |-> TRUE, error |-> NetworkError, result |-> NoResult]
      [] ans.kind = "202" ->
           [threw |-> FALSE, error |-> "",
            result |-> [code |-> 202, hasData |-> TRUE, data |-> <<>>,
                        message |-> Msg("Task not ready, please wait")]]
      [] ans.kind = "http_error" ->
           [threw |-> TRUE, error |-> HttpError, result |-> NoResult]
      [] ans.kind = "nodata" ->
           [threw |-> FALSE, error |-> "",
            result |-> [code |-> 200, hasData |-> FALSE, data |-> <<>>,
                        message |-> Msg("success")]]
      [] OTHER ->
           [threw |-> FALSE, error |-> "",
            result |-> [code |-> 200, hasData |-> TRUE, data |-> ans.data,
                        message |-> Msg("success")]]

\* a variant of FindClip that takes the last clip in the state
FindLastClip(data, st) ==
    IF \E i \in 1..Len(data) : data[i].state = st
    THEN CHOOSE i \in 1..Len(data) :
            /\ data[i].state = st
            /\ \A j \in (i + 1)..Len(data) : data[j].state # st
    ELSE 0

\* Array.prototype.find(clip => clip.state === st): its index, 0 for undefined
FindClip(data, st) ==
    IF \E i \in 1..Len(data) : data[i].state = st
    THEN CHOOSE i \in 1..Len(data) :
            /\ data[i].state = st
            /\ \A j \in 1..(i - 1) : data[j].state # st
    ELSE 0

\* Math.round(parseFloat(d)) of a duration given in tenths of a second
RoundDuration(d) == (d + 5) \div 10

\* a variant of CompletedUpdate that does not stamp completed_at
CompletedUpdateUnstamped(clip) ==
    [ status        |-> "completed",
      clip_id       |-> clip.clip_id,
      audio_url     |-> clip.audio_url,
      video_url     |-> clip.video_url,
      image_url     |-> clip.image_url,
      error_message |-> NullMsg ]

\* the update written for a succeeded clip (generate route, retry route, check-status)
CompletedUpdate(clip) ==
    [ status        |-> "completed",
      clip_id       |-> clip.clip_id,
      audio_url     |-> clip.audio_url,
      video_url     |-> clip.video_url,
      image_url     |-> clip.image_url,
      duration      |-> IF clip.duration # 0
                        THEN <<RoundDuration(clip.duration)>> ELSE NoDuration,
      completed_at  |-> "set",
      error_message |-> NullMsg ]

\* no write
NoUpdate == [nowrite |-> TRUE]
IsUpdate(u) == "nowrite" \notin DOMAIN u

\* supabase update(updates).eq("id", songId): the columns named are overwritten
\* in the row of that id, if there is one
ApplyUpdate(row, u) ==
    IF row.status = "absent" THEN row
    ELSE [f \in DOMAIN row |-> IF f \in DOMAIN u THEN u[f] ELSE row[f]]


----------------------------------------------------------------------------
(* pollTaskCompletion and pollSongCompletion *)

MockPrefix == "mock_"

\* the mock id generateCompleteSong builds: `mock_${Date.now()}_${random}`
MockTaskId == <<MockPrefix, "1700000000000_k3j9x2q1z">>
\* a task id of the audio-creation service
RealTaskId == <<"c0ffee", "-4a1b">>

\* a variant of MockResult whose clip is still pending
MockResultPending(taskId) ==
    [ code    |-> 200,
      hasData |-> TRUE,
      data    |-> << [ state     |-> "pending",
                       clip_id   |-> <<"clip_">> \o Tail(taskId),
                       audio_url |-> "",
                       video_url |-> "",
                       image_url |-> "",
                       duration  |-> 0 ] >>,
      message |-> Msg("Mock task completed successfully") ]

\* the response pollTaskCompletion returns for a mock task id
MockResult(taskId) ==
    [ code    |-> 200,
      hasData |-> TRUE,
      data    |-> << [ state     |-> "succeeded",
                       clip_id   |-> <<"clip_">> \o Tail(taskId),
                       audio_url |-> "https://cdn1.suno.ai/mock-audio-url.mp3",
                       video_url |-> "https://cdn1.suno.ai/mock-video-url.mp4",
                       image_url |-> "https://cdn1.suno.ai/mock-image-url.jpg",
                       duration  |-> 1800 ] >>,
      message |-> Msg("Mock task completed successfully") ]

\* a variant of PollingFailedResult that carries no data array
PollingFailedWithoutData(lastError) ==
    [ code |-> 500, hasData |-> FALSE, data |-> <<>>,
      message |-> <<"Polling failed", ": ", lastError[1]>> ]

\* the result returned when the loop ran out with lastError set
PollingFailedResult(lastError) ==
    [ code |-> 500, hasData |-> TRUE, data |-> <<>>,
      message |-> <<"Polling failed", ": ", lastError[1]>> ]

\* the result returned when the final status check throws
FinalFailedResult(error) ==
    [ code |-> 500, hasData |-> TRUE, data |-> <<>>,
      message |-> <<"Final status check failed", ": ", error>> ]

\* a variant of LoopVerdict that returns only on a succeeded clip
LoopVerdictOnSuccessOnly(out) ==
    IF out.threw THEN "continue"
    ELSE IF out.result.code = 202 THEN "continue"
    ELSE IF ~out.result.hasData THEN "continue"
    ELSE IF \E i \in 1..Len(out.result.data) : out.result.data[i].state = "succeeded"
         THEN "return"
         ELSE "continue"

\* a variant of LoopVerdict that goes on polling while clips are in a state
\* it does not know
LoopVerdictOnKnownStates(out) ==
    IF out.threw THEN "continue"
    ELSE IF out.result.code = 202 THEN "continue"
    ELSE IF ~out.result.hasData THEN "continue"
    ELSE LET data == out.result.data
             hasCompleted == \E i \in 1..Len(data) : data[i].state = "succeeded"
             hasFailed    == \E i \in 1..Len(data) : data[i].state = "failed"
         IN  IF hasCompleted \/ hasFailed THEN "return" ELSE "continue"

\* one pass of the for loop's body on what getTaskStatus gave:
\* "return" (the result is returned) or "continue" (next attempt)
LoopVerdict(out) ==
    IF out.threw THEN "continue"
    ELSE IF out.result.code = 202 THEN "continue"
    ELSE IF ~out.result.hasData THEN "continue"
    ELSE LET data == out.result.data
             hasCompleted == \E i \in 1..Len(data) : data[i].state = "succeeded"
             hasFailed    == \E i \in 1..Len(data) : data[i].state = "failed"
             allPending   == \A i \in 1..Len(data) :
                                 data[i].state \in {"pending", "running"}
         IN  IF hasCompleted \/ hasFailed THEN "return"
             ELSE IF ~allPending THEN "return"
             ELSE "continue"

\* the wait made after attempt index a: "none", the fixed interval, or the backoff
intervalMs == 30000
BackoffCap == 120000

RECURSIVE Pow15(_, _)
\* floor(x * 1.5^a)
Pow15(x, a) == IF a = 0 THEN x ELSE Pow15((x * 3) \div 2, a - 1)

Min(a, b) == IF a < b THEN a ELSE b

\* a variant of WaitAfter that backs off after every attempt
WaitAfterAlwaysBackoff(out, a) ==
    IF a >= maxAttempts - 1 THEN 0
    ELSE Min(Pow15(intervalMs, a), BackoffCap)

\* a variant of WaitAfter whose backoff has no cap
WaitAfterUncapped(out, a) ==
    IF a >= maxAttempts - 1 THEN 0
    ELSE IF out.threw THEN Pow15(intervalMs, a)
    ELSE intervalMs

WaitAfter(out, a) ==
    IF a >= maxAttempts - 1 THEN 0
    ELSE IF out.threw THEN Min(Pow15(intervalMs, a), BackoffCap)
    ELSE intervalMs

\* a variant of CompletionUpdate that leaves a job without a succeeded or
\* failed clip in generating
CompletionUpdateStillGenerating(result) ==
    IF ~result.hasData
    THEN [status |-> "failed", error_message |-> InvalidResponseMsg]
    ELSE LET s == FindClip(result.data, "succeeded")
         IN  IF s # 0 THEN CompletedUpdate(result.data[s])
             ELSE IF FindClip(result.data, "failed") # 0
                  THEN [status |-> "failed", error_message |-> SunoFailedMsg]
                  ELSE [status |-> "generating", error_message |-> StillGeneratingMsg]

\* the update pollSongCompletion writes for the result of pollTaskCompletion
CompletionUpdate(result) ==
    IF ~result.hasData
    THEN IF result.code = 500 /\ MsgIncludes(result.message, "Polling failed")
         THEN [status |-> "generating", error_message |-> ApiIssuesMsg]
         ELSE [status |-> "failed", error_message |-> InvalidResponseMsg]
    ELSE LET s == FindClip(result.data, "succeeded")
         IN  IF s # 0 THEN CompletedUpdate(result.data[s])
             ELSE IF FindClip(result.data, "failed") # 0
                  THEN [status |-> "failed", error_message |-> SunoFailedMsg]
                  ELSE [status |-> "failed", error_message |-> TimedOutMsg]

\* a variant of PollErrorUpdate that drops the message
PollErrorUpdateNoMessage(message) == [status |-> "failed", error_message |-> NullMsg]

\* the update pollSongCompletion's catch writes
PollErrorUpdate(message) == [status |-> "failed", error_message |-> message]

----------------------------------------------------------------------------
(* The manual retry route and the batch check-status route *)

\* a variant of RetryUpdate that keeps the row in generating whatever the answer
RetryUpdateKeepsGenerating(ans) ==
    [status |-> "generating", error_message |-> StillGeneratingMsg]

\* a variant of RetryUpdate that stores a new task id when the task is not ready
RetryUpdateResubmitting(ans) ==
    IF ans.kind = "202"
    THEN [status |-> "generating", error_message |-> StillGeneratingMsg,
          task_id |-> <<"c0ffee", "-5b2c">>]
    ELSE [status |-> "generating", error_message |-> UnableToCheckMsg]

\* retry route, lines 66-217: the update written for what the status endpoint answered
RetryUpdate(ans) ==
    IF ans.kind \in {"network", "http_error"}
    THEN [status |-> "generating", error_message |-> UnableToCheckMsg]
    ELSE IF ans.kind = "202"
    THEN [status |-> "generating", error_message |-> StillGeneratingMsg]
    ELSE IF ans.kind = "ok" /\ Len(ans.data) > 0
    THEN LET s == FindClip(ans.data, "succeeded")
         IN  IF s # 0 THEN CompletedUpdate(ans.data[s])
             ELSE IF FindClip(ans.data, "failed") # 0
                  THEN [status |-> "failed", error_message |-> SunoFailedMsg]
                  ELSE [status |-> "generating", error_message |-> StillGeneratingMsg]
    ELSE [status |-> "generating", error_message |-> UnableToCheckMsg]

\* check-status route, lines 56-173: the update written, if any
BatchUpdate(ans) ==
    IF ans.kind = "ok" /\ Len(ans.data) > 0
    THEN LET s == FindClip(ans.data, "succeeded")
         IN  IF s # 0 THEN CompletedUpdate(ans.data[s])
             ELSE IF FindClip(ans.data, "failed") # 0
                  THEN [status |-> "failed", error_message |-> SunoFailedMsg]
                  ELSE NoUpdate
    ELSE NoUpdate


----------------------------------------------------------------------------
(* Reference retrieval: findSimilarLyrics *)
(* Text is a sequence of one-character strings.                            *)

Whitespace == {" "}

\* String.prototype.toLowerCase, on the letters the texts below use
LowerOf(c) ==
    CASE c = "C" -> "c" [] c = "D" -> "d" [] c = "H" -> "h" [] c = "I" -> "i"
      [] c = "J" -> "j"
      [] c = "K" -> "k" [] c = "L" -> "l" [] c = "O" -> "o" [] c = "T" -> "t"
      [] c = "S" -> "s" [] c = "Y" -> "y" [] OTHER -> c

toLowerCase(s) == [i \in 1..Len(s) |-> LowerOf(s[i])]

RECURSIVE SplitRec(_, _, _, _, _)
SplitRec(s, i, cur, acc, prevWs) ==
    IF i > Len(s) THEN Append(acc, cur)
    ELSE IF s[i] \in Whitespace
         THEN IF prevWs THEN SplitRec(s, i + 1, cur, acc, TRUE)
              ELSE SplitRec(s, i + 1, <<>>, Append(acc, cur), TRUE)
         ELSE SplitRec(s, i + 1, Append(cur, s[i]), acc, FALSE)

\* String.prototype.split(/\s+/)
split(s) == SplitRec(s, 1, <<>>, <<>>, FALSE)

\* needle occurs in hay
Contains(hay, needle) ==
    \E k \in 0..(Len(hay) - Len(needle)) :
        \A i \in 1..Len(needle) : hay[k + i] = needle[i]

\* column ILIKE %keyword%
ilike(column, keyword) == Contains(toLowerCase(column), toLowerCase(keyword))

StopWords ==
    {
      <<"t", "h", "e">>, <<"a", "n", "d">>, <<"f", "o", "r">>, <<"a", "r", "e">>,
      <<"b", "u", "t">>, <<"n", "o", "t">>, <<"y", "o", "u">>, <<"a", "l", "l">>,
      <<"c", "a", "n">>, <<"h", "a", "d">>, <<"h", "e", "r">>, <<"w", "a", "s">>,
      <<"o", "n", "e">>, <<"o", "u", "r">>, <<"o", "u", "t">>, <<"d", "a", "y">>,
      <<"g", "e", "t">>, <<"h", "a", "s">>, <<"h", "i", "m">>, <<"h", "i", "s">>,
      <<"h", "o", "w">>, <<"i", "t", "s">>, <<"m", "a", "y">>, <<"n", "e", "w">>,
      <<"n", "o", "w">>, <<"o", "l", "d">>, <<"s", "e", "e">>, <<"t", "w", "o">>,
      <<"w", "h", "o">>, <<"b", "o", "y">>, <<"d", "i", "d">>, <<"s", "h", "e">>,
      <<"u", "s", "e">>, <<"w", "a", "y">>, <<"w", "h", "o">>, <<"o", "i", "l">>,
      <<"s", "i", "t">>, <<"s", "e", "t">> }

\* the keywords of the keyword tier, lines 158-204
Keywords(queryText) ==
    SelectSeq(split(toLowerCase(queryText)),
              LAMBDA word : Len(word) > 2 /\ word \notin StopWords)

\* a variant of KeywordMatches that filters on lyrics_text alone
KeywordMatchesTextOnly(rows, keywords) ==
    { r \in rows : \E i \in 1..Len(keywords) : ilike(r.lyrics_text, keywords[i]) }

\* the rows the keyword tier's or-filter selects, lines 208-218
KeywordMatches(rows, keywords) ==
    { r \in rows : \E i \in 1..Len(keywords) :
                      \/ ilike(r.song_name, keywords[i])
                      \/ ilike(r.lyrics_text, keywords[i]) }

\* .limit(n) of a select without ORDER BY: any n of the rows
Limit(rows, n) ==
    { R \in SUBSET rows : Cardinality(R) = Min(n, Cardinality(rows)) }

\* match_lyrics: the rows above the threshold, the match_count most similar ones
\* sim[r] is the similarity of row r to the query (0: no embedding stored)
MatchLyrics(rows, sim, threshold, n) ==
    LET above == { r \in rows : sim[r] > threshold }
    IN  { R \in Limit(above, n) :
            \A r \in R : \A m \in above \ R : sim[r] >= sim[m] }

\* the built-in list of Strategy 4, lines 251-267
HardcodedFallback ==
    { [song_name |-> <<"Y", "e", "h", " ", "D", "o", "s", "t", "i">>, lyrics_text |-> <<"Y", "e", "h", " ", "d", "o", "s", "t", "i", " ", "h", "u", "m">>],
      [song_name |-> <<"H", "a", "a", "n", " ", "J", "a", "b">>, lyrics_text |-> <<"H", "a", "a", "n", " ", "j", "a", "b", " ", "t", "a", "k">>],
      [song_name |-> <<"K", "o", "i", " ", "H", "a", "s", "e", "e", "n", "a">>, lyrics_text |-> <<"K", "o", "i", " ", "h", "a", "s", "e", "e", "n", "a", " ", "j", "a", "b">>] }

\* the list returned by the outer catch, lines 272-278
FinalFallback ==
    { [song_name |-> <<"C", "l", "a", "s", "s", "i", "c", " ", "H", "i", "n", "d", "i", " ", "S", "o", "n", "g">>, lyrics_text |-> <<"D", "i", "l", " ", "m", "e", "i", "n", " ", "b", "a", "s", "i">>] }


\* rows lyrics_index can hold
AllRows ==
    { [song_name |-> <<"Y", "e", "h", " ", "D", "o", "s", "t", "i">>, lyrics_text |-> <<"d", "o", "s", "t", "i", " ", "h", "u", "m">>],
      [song_name |-> <<"K", "o", "i">>, lyrics_text |-> <<"L", "o", "v", "e", " ", "y", "o", "u">>],
      [song_name |-> <<"H", "a", "a", "n", " ", "Y", "e", "h">>, lyrics_text |-> <<"j", "a", "a", "n">>] }

\* themes submitted: a keyword that is in a row's text and a word too short
\* to be a keyword that is in a row's name; no keyword surviving the filter;
\* a leading blank and keywords in two rows' names in another case; one
\* keyword matching no row
Themes == { <<"L", "o", "v", "e", " ", "d", "o">>, <<"a", " ", "d", "a", "y", " ", "t", "o">>, <<" ", "y", "e", "h", " ", "D", "O", "S", "T", "I">>, <<"h", "o", "l", "i">> }

\* similarity of a row to the query as match_lyrics computes it: 0 (not above
\* any threshold, or no embedding), 1, 2
SimLevels == 0..2
\* matchThreshold = 0.01: every positive level is above it
MatchThreshold == 0

FslIdle ==
    [ phase |-> "idle", caller |-> "", queryText |-> <<>>, matchCount |-> 0,
      queries |-> <<>>, outcomes |-> <<>>, source |-> "", result |-> {} ]

\* findSimilarLyrics is entered: generateEmbedding is awaited
FslEnter(caller, queryText, matchCount) ==
    [ phase |-> "embed", caller |-> caller, queryText |-> queryText,
      matchCount |-> matchCount, queries |-> <<>>, outcomes |-> <<>>,
      source |-> "", result |-> {} ]

\* a tier's query is issued / its outcome is known
Queried(f, tier) == [f EXCEPT !.queries = Append(@, tier)]
Outcome(f, o) == [f EXCEPT !.outcomes = Append(@, o)]

FslReturn(f, source, rows) ==
    [f EXCEPT !.phase = "returned", !.source = source, !.result = rows]

\* lines 156-206 and 234-239: after the similarity tier gave nothing, the keyword
\* query is issued if a keyword survives, else the arbitrary-sample query
AfterSimilarity(f) ==
    IF Len(Keywords(f.queryText)) > 0
    THEN [Queried(f, "keyword") EXCEPT !.phase = "keyword"]
    ELSE [Queried(f, "sample") EXCEPT !.phase = "sample"]

\* a variant of AfterKeyword that skips the arbitrary-sample query
AfterKeywordSkipsSample(f) == FslReturn(f, "hardcoded", HardcodedFallback)

AfterKeyword(f) == [Queried(f, "sample") EXCEPT !.phase = "sample"]

\* lines 133: generateEmbedding resolves or throws
FslEmbed ==
    /\ fsl.phase = "embed"
    /\ \E ok \in BOOLEAN :
         fsl' = IF ok
                THEN [Queried(Outcome(Queried(fsl, "embedding"), "ok"), "match_lyrics")
                        EXCEPT !.phase = "rpc"]
                ELSE AfterSimilarity(Outcome(Queried(fsl, "embedding"), "throw"))
    /\ UNCHANGED <<jobVars, corpus>>

\* lines 135-154: the match_lyrics rpc answers
FslRpc ==
    /\ fsl.phase = "rpc"
    /\ \/ \E sim \in [corpus -> SimLevels] :
            \E R \in MatchLyrics(corpus, sim, MatchThreshold, fsl.matchCount) :
               fsl' = IF R # {}
                      THEN FslReturn(Outcome(fsl, "rows"), "similarity",
                               { [song_name |-> r.song_name,
                                  lyrics_text |-> r.lyrics_text,
                                  similarity |-> sim[r]] : r \in R })
                      ELSE AfterSimilarity(Outcome(fsl, "empty"))
       \/ \E o \in {"error", "throw"} : fsl' = AfterSimilarity(Outcome(fsl, o))
    /\ UNCHANGED <<jobVars, corpus>>

\* lines 215-232: the keyword query answers
FslKeyword ==
    /\ fsl.phase = "keyword"
    /\ \/ \E R \in Limit(KeywordMatches(corpus, Keywords(fsl.queryText)),
                         fsl.matchCount) :
            fsl' = IF R # {}
                   THEN FslReturn(Outcome(fsl, "rows"), "keyword", R)
                   ELSE AfterKeyword(Outcome(fsl, "empty"))
       \/ fsl' = AfterKeyword(Outcome(fsl, "error"))
       \/ fsl' = FslReturn(Outcome(fsl, "throw"), "final", FinalFallback)
    /\ UNCHANGED <<jobVars, corpus>>

\* lines 236-267: the arbitrary-sample query answers
FslSample ==
    /\ fsl.phase = "sample"
    /\ \/ \E R \in Limit(corpus, fsl.matchCount) :
            fsl' = IF R # {}
                   THEN FslReturn(Outcome(fsl, "rows"), "sample", R)
                   ELSE FslReturn(Outcome(fsl, "empty"), "hardcoded", HardcodedFallback)
       \/ fsl' = FslReturn(Outcome(fsl, "error"), "hardcoded", HardcodedFallback)
       \/ fsl' = FslReturn(Outcome(fsl, "throw"), "final", FinalFallback)
    /\ UNCHANGED <<jobVars, corpus>>

FslStep == FslEmbed \/ FslRpc \/ FslKeyword \/ FslSample


----------------------------------------------------------------------------
(* The song row and POST /api/songs/generate *)

\* the Clerk user who sent the generate request; another signed-in user
Owner == "user_owner"
OtherUser == "user_other"

NoSong ==
    [ status |-> "absent", task_id |-> NoTask, lyrics |-> Null,
      reference_songs |-> {}, error_message |-> NullMsg, clip_id |-> <<>>,
      audio_url |-> Null, video_url |-> Null, image_url |-> Null,
      duration |-> NoDuration, completed_at |-> Null,
      clerk_user_id |-> Null, is_liked |-> FALSE, play_count |-> 0 ]

\* the fixed lyric generateCompleteSong falls back to, lines 371-379
FallbackLyric == "[Verse] prem ki ye kahani sunate hain ... [Chorus] ..."

\* lyrics supplied with the request
CustomLyrics == "[Verse] user supplied lyrics"

\* a string is truthy unless null, undefined or empty
Truthy(str) == str # Null /\ str # ""

NoGen ==
    [ lyrics |-> Null, referenceSongs |-> {}, draftTexts |-> {},
      task_id |-> NoTask, error |-> "", createOutcome |-> "", draftOutcome |-> "" ]

\* locals of pollTaskCompletion while it runs; upd is the update that
\* pollSongCompletion has sent to updateSong once pollTaskCompletion is over.
\* requests counts the calls of getTaskStatus made so far, wait is the delay
\* awaited after the latest attempt; once the call is over the locals are gone
\* and how tells which return statement ended it ("threw" if none did)
NoPoll ==
    [ attempt |-> 0, lastError |-> <<>>, upd |-> NoUpdate,
      requests |-> 0, wait |-> 0, how |-> "" ]

NoPollLog ==
    [ lead202 |-> 0 - 1, all202 |-> TRUE, allThrew |-> TRUE, exhausted |-> FALSE,
      succeeded |-> {}, first |-> <<>>, hasFailed |-> FALSE,
      outcome |-> "", retryStatus |-> "" ]

\* request bodies: a theme, with or without lyrics
Requests == { [theme |-> t, customLyrics |-> l] : t \in Themes, l \in {Null, CustomLyrics} }

LogStatusReq(actor, task) ==
    [reqLog EXCEPT !.status = @ \cup {<<actor, task>>}]

LogManualReq(actor, task) ==
    [reqLog EXCEPT !.status = @ \cup {<<actor, task>>}, !.manual = @ + 1]

\* createSong, supabase.ts lines 207-215
createSong(lyrics) ==
    [NoSong EXCEPT !.status = "pending", !.lyrics = lyrics, !.clerk_user_id = Owner]

\* POST, lines 70-102: the row is created and the background task started
PostGenerate ==
    /\ pc = "idle"
    /\ song.status = "absent"
    /\ song' = createSong(params.customLyrics)
    /\ pc' = "bg_start"
    /\ UNCHANGED <<clean, http, params, gen, poll, pollLog, retry, batch, reqLog, fsl, corpus>>

----------------------------------------------------------------------------
(* generateSongInBackground and generateCompleteSong *)

\* a variant of AfterLyrics that makes the create request whatever the lyrics
AfterLyricsAlwaysSubmits(g) == [ g |-> g, next |-> "gen_submit", create |-> 1 ]

\* generateCompleteSong lines 383-410, after the lyrics are settled: the error
\* result without a create request, or the create request
AfterLyrics(g) ==
    IF ~Truthy(g.lyrics)
    THEN [ g    |-> [g EXCEPT !.lyrics = "", !.error = "Failed to generate lyrics"],
           next |-> "bg_write_task", create |-> 0 ]
    ELSE [ g |-> g, next |-> "gen_submit", create |-> 1 ]

\* line 130, then generateCompleteSong up to its first await
BgSetGenerating ==
    /\ pc = "bg_start"
    /\ song' = ApplyUpdate(song, [status |-> "generating"])
    /\ IF Truthy(params.customLyrics)
       THEN LET a == AfterLyrics([NoGen EXCEPT !.lyrics = params.customLyrics])
            IN  /\ gen' = a.g
                /\ pc' = a.next
                /\ reqLog' = [reqLog EXCEPT !.create = @ + a.create]
                /\ fsl' = fsl
       ELSE /\ gen' = NoGen
            /\ pc' = "gen_retrieve"
            /\ fsl' = FslEnter("bg", params.theme, GenMatchCount)
            /\ reqLog' = reqLog
    /\ UNCHANGED <<clean, http, params, poll, pollLog, retry, batch, corpus>>

\* lines 341-363: findSimilarLyrics returned; optimizeLyricsPrompt is called
GenDraft ==
    /\ pc = "gen_retrieve"
    /\ fsl.phase = "returned" /\ fsl.caller = "bg"
    /\ gen' = IF fsl.result # {}
              THEN [gen EXCEPT
                      !.referenceSongs = { r.song_name : r \in fsl.result },
                      !.draftTexts = { r.lyrics_text : r \in fsl.result }]
              ELSE gen
    /\ reqLog' = [reqLog EXCEPT !.draft = @ + 1]
    /\ fsl' = FslIdle
    /\ pc' = "gen_draft"
    /\ UNCHANGED <<clean, http, song, params, poll, pollLog, retry, batch, corpus>>

\* a variant of DraftedLyrics without the fallback lyric
DraftedLyricsOrNone(outcome) ==
    IF outcome = "text" THEN "[Verse] drafted lyrics" ELSE ""

\* the lyrics after the drafting call: its cleaned text (possibly empty), or
\* the fallback lyric when it threw (lines 364-380)
DraftedLyrics(outcome) ==
    CASE outcome = "text"  -> "[Verse] drafted lyrics"
      [] outcome = "empty" -> ""
      [] OTHER             -> FallbackLyric

\* optimizeLyricsPrompt resolves or throws
GenDraftAnswer ==
    /\ pc = "gen_draft"
    /\ \E o \in {"text", "empty", "throw"} :
         LET a == AfterLyrics([gen EXCEPT !.lyrics = DraftedLyrics(o),
                                          !.draftOutcome = o])
         IN  /\ gen' = a.g
             /\ pc' = a.next
             /\ reqLog' = [reqLog EXCEPT !.create = @ + a.create]
    /\ UNCHANGED <<clean, http, song, params, poll, pollLog, retry, batch, fsl, corpus>>

\* a variant of SubmittedTaskId that returns no task id when the request failed
SubmittedTaskIdIfAny(outcome) ==
    IF outcome = "ok" THEN RealTaskId ELSE NoTask

\* lines 397-446: the task id generateCompleteSong returns for the outcome of
\* the create request
SubmittedTaskId(outcome) ==
    IF outcome = "ok" THEN RealTaskId ELSE MockTaskId

CreateOutcomes == {"ok", "no_task_id", "non_2xx", "throw"}

\* the create request answers
GenSubmitAnswer ==
    /\ pc = "gen_submit"
    /\ \E o \in CreateOutcomes :
         gen' = [gen EXCEPT !.task_id = SubmittedTaskId(o), !.createOutcome = o]
    /\ pc' = "bg_write_task"
    /\ UNCHANGED <<clean, http, song, params, poll, pollLog, retry, batch, reqLog, fsl, corpus>>

\* a variant of TaskUpdate that leaves the task id out
TaskUpdateWithoutTaskId(g) ==
    [lyrics |-> g.lyrics, reference_songs |-> g.referenceSongs]

\* lines 156-165: an undefined task_id is not part of the update sent
TaskUpdate(g) ==
    IF g.task_id = NoTask
    THEN [lyrics |-> g.lyrics, reference_songs |-> g.referenceSongs]
    ELSE [task_id |-> g.task_id, lyrics |-> g.lyrics,
          reference_songs |-> g.referenceSongs]

\* lines 156-168: the task info is written, pollSongCompletion is started
BgWriteTask ==
    /\ pc = "bg_write_task"
    /\ song' = ApplyUpdate(song, TaskUpdate(gen))
    /\ pc' = "poll_enter"
    /\ UNCHANGED <<clean, http, params, gen, poll, pollLog, retry, batch, reqLog, fsl, corpus>>


----------------------------------------------------------------------------
(* pollSongCompletion -> pollTaskCompletion: the automatic polling *)

\* history of the answers to the status requests of pollTaskCompletion:
\*   lead202   how many answers came before the latest one, if all of those
\*             were 202; -1 if one of them was not, or before the first answer
\*   all202    every answer so far was 202
\*   allThrew  every request so far threw
\*   exhausted the for loop ran through its maxAttempts attempts
\*   succeeded the audio URLs of the clips in state succeeded of the latest answer
\*   first     the clip in state succeeded that comes first in the latest answer
\*   hasFailed a clip of the latest answer is in state failed
\*   outcome   the kind of the latest answer (AnswerKind)
\*   retryStatus the status the retry route writes when it gets that answer
LogPoll(o, attempt, exhausted) ==
    [ lead202   |-> IF pollLog.all202 THEN attempt ELSE 0 - 1,
      all202    |-> pollLog.all202 /\ o.notReady,
      allThrew  |-> pollLog.allThrew /\ o.threw,
      exhausted |-> exhausted,
      succeeded |-> o.succeeded,
      first     |-> o.first,
      hasFailed |-> o.hasFailed,
      outcome   |-> o.outcome,
      retryStatus |-> o.retryStatus ]

\* the kinds of answer of the status endpoint: not ready, transport error, no
\* clip, a succeeded clip, a failed clip and none succeeded, all clips pending
\* or running, or clips in some other state
AnswerKind(ans) ==
    LET states == { ans.data[j].state : j \in 1..Len(ans.data) }
    IN  CASE ans.kind = "202" -> "202"
          [] ans.kind \in {"network", "http_error"} -> "error"
          [] ans.kind = "nodata" \/ states = {} -> "empty"
          [] "succeeded" \in states -> "succeeded"
          [] "failed" \in states -> "failed"
          [] states \subseteq {"pending", "running"} -> "pending"
          [] OTHER -> "other"

\* what one status request comes to, for an answer of the endpoint: whether
\* getTaskStatus threw and with what, whether the answer was a 202, what the
\* polling loop does with the result, and the update pollSongCompletion makes
\* of the result when it is the one returned
StatusOutcome(ans) ==
    LET out == getTaskStatus(ans)
    IN  [ threw    |-> out.threw,
          error    |-> out.error,
          notReady |-> ans.kind = "202",
          succeeded |-> IF ans.kind = "ok"
                        THEN { ans.data[i].audio_url :
                                 i \in { j \in 1..Len(ans.data) :
                                           ans.data[j].state = "succeeded" } }
                        ELSE {},
          first    |-> LET at == { j \in 1..Len(ans.data) :
                                     ans.data[j].state = "succeeded" }
                       IN  IF ans.kind = "ok" /\ at # {}
                           THEN << ans.data[CHOOSE i \in at : \A j \in at : i <= j] >>
                           ELSE <<>>,
          hasFailed |-> /\ ans.kind = "ok"
                        /\ \E j \in 1..Len(ans.data) : ans.data[j].state = "failed",
          outcome  |-> AnswerKind(ans),
          retryStatus |-> RetryUpdate(ans).status,
          verdict  |-> LoopVerdict(out),
          upd      |-> IF out.threw THEN NoUpdate ELSE CompletionUpdate(out.result) ]

StatusOutcomes == { StatusOutcome(ans) : ans \in Answers }

\* generate/route.ts lines 199-309: pollTaskCompletion returned `result`;
\* the update pollSongCompletion sends
Returned(result) == [NoPoll EXCEPT !.upd = CompletionUpdate(result)]

\* the same, for a result of getTaskStatus whose update is already worked out
ReturnedStatus(o) == [NoPoll EXCEPT !.upd = o.upd]

\* generate/route.ts lines 310-316: pollTaskCompletion threw
Threw(message) == [NoPoll EXCEPT !.upd = PollErrorUpdate(message)]

\* pollTaskCompletion is over: p is what pollSongCompletion makes of it
AtReturn(p, how) == [p EXCEPT !.how = how]

\* ai-music.ts lines 166-198: pollTaskCompletion is entered with the task id
\* generateCompleteSong returned
PollEnter ==
    /\ pc = "poll_enter"
    /\ IF gen.task_id = NoTask
       THEN \* taskId.startsWith of undefined throws; pollSongCompletion catches
            /\ poll' = AtReturn(Threw(StartsWithTypeError), "threw")
            /\ pc' = "poll_write"
            /\ reqLog' = reqLog
       ELSE IF StartsWith(gen.task_id, MockPrefix)
       THEN /\ pc' = "poll_mock"
            /\ UNCHANGED <<clean, http, poll, reqLog>>
       ELSE /\ pc' = "poll_loop"
            /\ reqLog' = LogStatusReq("poll", gen.task_id)
            /\ poll' = [poll EXCEPT !.requests = 1]
    /\ UNCHANGED <<clean, http, song, params, gen, pollLog, retry, batch, fsl, corpus>>

\* lines 172-195: the simulated delay is over
PollMockReturn ==
    /\ pc = "poll_mock"
    /\ poll' = AtReturn(Returned(MockResult(gen.task_id)), "mock")
    /\ pc' = "poll_write"
    /\ UNCHANGED <<clean, http, song, params, gen, pollLog, retry, batch, reqLog, fsl, corpus>>

\* lines 198-279: the status request of the current attempt answers; the loop
\* returns, or goes to the next attempt after its wait, or runs out
PollAttempt ==
    /\ pc = "poll_loop"
    /\ poll.attempt < maxAttempts
    /\ \E o \in StatusOutcomes :
         LET lastError == IF o.threw THEN <<o.error>> ELSE poll.lastError
             next == poll.attempt + 1
         IN  IF o.verdict = "return"
             THEN /\ poll' = AtReturn(ReturnedStatus(o), "loop")
                  /\ pollLog' = LogPoll(o, poll.attempt, FALSE)
                  /\ pc' = "poll_write"
             ELSE IF next < maxAttempts
             THEN /\ poll' = [poll EXCEPT !.attempt = next, !.lastError = lastError,
                                          !.requests = @ + 1,
                                          !.wait = WaitAfter(o, poll.attempt)]
                  /\ pollLog' = LogPoll(o, poll.attempt, FALSE)
                  /\ pc' = "poll_loop"
             ELSE IF lastError # <<>>
             THEN /\ poll' = [AtReturn(Returned(PollingFailedResult(lastError)),
                                       "polling_failed")
                                EXCEPT !.wait = WaitAfter(o, poll.attempt)]
                  /\ pollLog' = LogPoll(o, poll.attempt, TRUE)
                  /\ pc' = "poll_write"
             ELSE /\ poll' = [poll EXCEPT !.attempt = next, !.requests = @ + 1,
                                          !.wait = WaitAfter(o, poll.attempt)]
                  /\ pollLog' = LogPoll(o, poll.attempt, TRUE)
                  /\ pc' = "poll_final"
    /\ UNCHANGED <<clean, http, song, params, gen, retry, batch, reqLog, fsl, corpus>>

\* a variant of FinalCheck without the try/catch around the request
FinalCheckUncaught(o) ==
    IF o.threw THEN AtReturn(Threw(<<o.error>>), "threw")
    ELSE AtReturn(ReturnedStatus(o), "final")

\* lines 281-293: the final status check returns what getTaskStatus gave, or
\* the failed result if it threw
FinalCheck(o) ==
    IF o.threw THEN AtReturn(Returned(FinalFailedResult(o.error)), "final_failed")
    ELSE AtReturn(ReturnedStatus(o), "final")

\* lines 281-293: the final status check answers
PollFinal ==
    /\ pc = "poll_final"
    /\ \E o \in StatusOutcomes :
         /\ pollLog' = LogPoll(o, poll.attempt, TRUE)
         /\ poll' = FinalCheck(o)
    /\ pc' = "poll_write"
    /\ UNCHANGED <<clean, http, song, params, gen, retry, batch, reqLog, fsl, corpus>>

\* generate/route.ts lines 210, 230, 245, 274, 292, 313: updateSong takes effect
PollSongWrite ==
    /\ pc = "poll_write"
    /\ song' = ApplyUpdate(song, poll.upd)
    /\ poll' = NoPoll
    /\ pc' = "done"
    /\ UNCHANGED <<clean, http, params, gen, pollLog, retry, batch, reqLog, fsl, corpus>>

BgStep ==
    \/ BgSetGenerating \/ GenDraft \/ GenDraftAnswer \/ GenSubmitAnswer
    \/ BgWriteTask \/ PollEnter \/ PollMockReturn \/ PollAttempt \/ PollFinal
    \/ PollSongWrite

----------------------------------------------------------------------------
(* POST /api/songs/[id]/retry, by the song's owner *)

\* the updates the route can come to write, over all answers of the endpoint
RetryUpdates == { RetryUpdate(ans) : ans \in Answers }

RetryIdle == [pc |-> "idle", task |-> NoTask, upd |-> NoUpdate]

\* lines 36-76: the row is read, the guards pass, the status request is issued
RetryStart ==
    /\ retry.pc = "idle"
    /\ reqLog.manual < MaxManual
    /\ song.status # "absent"
    /\ song.task_id # NoTask
    /\ song.status # "completed"
    /\ retry' = [retry EXCEPT !.pc = "fetch", !.task = song.task_id]
    /\ reqLog' = LogManualReq("retry", song.task_id)
    /\ UNCHANGED <<clean, http, song, pc, params, gen, poll, pollLog, batch, fsl, corpus>>

\* lines 78-93: the status endpoint answers
RetryAnswer ==
    /\ retry.pc = "fetch"
    /\ \E upd \in RetryUpdates :
         retry' = [retry EXCEPT !.pc = "write", !.upd = upd]
    /\ UNCHANGED <<clean, http, song, pc, params, gen, poll, pollLog, batch, reqLog, fsl, corpus>>

\* lines 96-217: the update is written
RetryWrite ==
    /\ retry.pc = "write"
    /\ song' = ApplyUpdate(song, retry.upd)
    /\ retry' = [retry EXCEPT !.pc = "idle", !.task = NoTask, !.upd = NoUpdate]
    /\ UNCHANGED <<clean, http, pc, params, gen, poll, pollLog, batch, reqLog, fsl, corpus>>

RetryStep == RetryStart \/ RetryAnswer \/ RetryWrite

----------------------------------------------------------------------------
(* POST check-status, by the song's owner *)

BatchUpdates == { BatchUpdate(ans) : ans \in Answers }

BatchIdle == [pc |-> "idle", task |-> NoTask, upd |-> NoUpdate]

\* lines 26-33: the rows selected are those in generating or pending with a task id
Stuck(row) == row.status \in {"generating", "pending"} /\ row.task_id # NoTask

\* lines 27-69: the song is among the rows selected; its status request is issued
BatchStart ==
    /\ batch.pc = "idle"
    /\ reqLog.manual < MaxManual
    /\ Stuck(song)
    /\ batch' = [batch EXCEPT !.pc = "fetch", !.task = song.task_id]
    /\ reqLog' = LogManualReq("batch", song.task_id)
    /\ UNCHANGED <<clean, http, song, pc, params, gen, poll, pollLog, retry, fsl, corpus>>

\* lines 71-164: the status endpoint answers; nothing is written unless a clip
\* succeeded or failed
BatchAnswer ==
    /\ batch.pc = "fetch"
    /\ \E upd \in BatchUpdates :
         batch' = IF IsUpdate(upd)
                  THEN [batch EXCEPT !.pc = "write", !.upd = upd]
                  ELSE [batch EXCEPT !.pc = "idle", !.task = NoTask]
    /\ UNCHANGED <<clean, http, song, pc, params, gen, poll, pollLog, retry, reqLog, fsl, corpus>>

\* lines 107-118 and 136-139
BatchWrite ==
    /\ batch.pc = "write"
    /\ song' = ApplyUpdate(song, batch.upd)
    /\ batch' = [batch EXCEPT !.pc = "idle", !.task = NoTask, !.upd = NoUpdate]
    /\ UNCHANGED <<clean, http, pc, params, gen, poll, pollLog, retry, reqLog, fsl, corpus>>

BatchStep == BatchStart \/ BatchAnswer \/ BatchWrite

----------------------------------------------------------------------------
(* GET, PATCH and DELETE /api/songs/[id], and the guards of the retry route *)

\* play_count is counted up to here
MaxPlays == 1

Routes == {"GET", "PATCH", "DELETE", "RETRY"}

\* what auth() yields: no session, the song's owner, another signed-in user
Users == {Null, Owner, OtherUser}

\* what request.json() yields in PATCH: it throws, or the body has one key
Bodies == {"malformed", "liked", "increment_plays", "lyrics", "none"}

\* lyrics sent in a PATCH body
EditedLyrics == "[Verse] edited lyrics"

\* getSongById: the row, null when there is none (PGRST116), or it throws
Lookups == {"ok", "throw"}

\* no request to /api/songs/[id] yet
NoResponse ==
    [ seq |-> 0, route |-> "", userId |-> Null, isSetup |-> TRUE, body |-> "",
      lookup |-> "ok", code |-> 0 ]

\* a variant of AccessDecision that does not compare clerk_user_id
AccessDecisionAnyUser(route, userId, isSetup, body, lookup, row) ==
    IF userId = Null THEN 401
    ELSE IF route \in {"GET", "RETRY"} /\ ~isSetup THEN 503
    ELSE IF route = "PATCH" /\ body = "malformed" THEN 500
    ELSE IF lookup = "throw" THEN 500
    ELSE IF row.status = "absent" THEN 404
    ELSE 0

\* the guards each handler runs before it acts, in the handler's order:
\* the status code it returns early, or 0 if the guards pass
AccessDecision(route, userId, isSetup, body, lookup, row) ==
    IF userId = Null THEN 401
    ELSE IF route \in {"GET", "RETRY"} /\ ~isSetup THEN 503
    ELSE IF route = "PATCH" /\ body = "malformed" THEN 500
    ELSE IF lookup = "throw" THEN 500
    ELSE IF row.status = "absent" THEN 404
    ELSE IF row.clerk_user_id # userId THEN 403
    ELSE 0

Respond(route, userId, isSetup, body, lookup, code) ==
    [ seq |-> 1 - http.seq, route |-> route, userId |-> userId, isSetup |-> isSetup,
      body |-> body, lookup |-> lookup, code |-> code ]

\* GET: nothing is written on any path
GetSong ==
    /\ \E userId \in Users, isSetup \in BOOLEAN, lookup \in Lookups :
         LET d == AccessDecision("GET", userId, isSetup, "", lookup, song)
         IN  http' = Respond("GET", userId, isSetup, "", lookup,
                             IF d # 0 THEN d ELSE 200)
    /\ UNCHANGED <<clean, song, pc, params, gen, poll, pollLog, retry, batch, reqLog, fsl, corpus>>

\* lines 112-153: the update a PATCH body asks for, NoUpdate if it names no
\* column that may be updated
PatchUpdate(body, row) ==
    CASE body = "liked"           -> [is_liked |-> TRUE]
      [] body = "increment_plays" -> [play_count |-> row.play_count + 1]
      [] body = "lyrics"          -> [lyrics |-> EditedLyrics]
      [] OTHER                    -> NoUpdate

\* PATCH: the update is written once the guards pass; a write that fails throws
PatchSong ==
    \E userId \in Users, body \in Bodies, lookup \in Lookups, written \in BOOLEAN :
        LET d   == AccessDecision("PATCH", userId, TRUE, body, lookup, song)
            upd == PatchUpdate(body, song)
        IN  /\ body = "increment_plays" /\ d = 0 => song.play_count < MaxPlays
            /\ IF d # 0
               THEN /\ http' = Respond("PATCH", userId, TRUE, body, lookup, d)
                    /\ song' = song
               ELSE IF ~IsUpdate(upd)
               THEN /\ http' = Respond("PATCH", userId, TRUE, body, lookup, 400)
                    /\ song' = song
               ELSE IF ~written
               THEN /\ http' = Respond("PATCH", userId, TRUE, body, lookup, 500)
                    /\ song' = song
               ELSE /\ http' = Respond("PATCH", userId, TRUE, body, lookup, 200)
                    /\ song' = ApplyUpdate(song, upd)
            /\ UNCHANGED <<clean, pc, params, gen, poll, pollLog, retry, batch, reqLog, fsl, corpus>>

\* DELETE: the row is deleted once the guards pass; a delete that fails throws
DeleteSong ==
    \E userId \in Users, lookup \in Lookups, deleted \in BOOLEAN :
        LET d == AccessDecision("DELETE", userId, TRUE, "", lookup, song)
        IN  /\ IF d # 0
               THEN /\ http' = Respond("DELETE", userId, TRUE, "", lookup, d)
                    /\ song' = song
               ELSE IF ~deleted
               THEN /\ http' = Respond("DELETE", userId, TRUE, "", lookup, 500)
                    /\ song' = song
               ELSE /\ http' = Respond("DELETE", userId, TRUE, "", lookup, 200)
                    /\ song' = NoSong
            /\ UNCHANGED <<clean, pc, params, gen, poll, pollLog, retry, batch, reqLog, fsl, corpus>>

\* POST retry, lines 15-76, by any caller: an early return, or the status
\* request is issued as in RetryStart and the answer follows in RetryAnswer
RetryRequest ==
    /\ retry.pc = "idle"
    /\ \E userId \in Users, isSetup \in BOOLEAN, lookup \in Lookups :
         LET d == AccessDecision("RETRY", userId, isSetup, "", lookup, song)
             code == IF d # 0 THEN d
                     ELSE IF song.task_id = NoTask \/ song.status = "completed" THEN 400
                     ELSE 0
         IN  /\ http' = Respond("RETRY", userId, isSetup, "", lookup, code)
             /\ IF code # 0
                THEN UNCHANGED <<clean, retry, reqLog>>
                ELSE /\ reqLog.manual < MaxManual
                     /\ retry' = [retry EXCEPT !.pc = "fetch", !.task = song.task_id]
                     /\ reqLog' = LogManualReq("retry", song.task_id)
    /\ UNCHANGED <<clean, song, pc, params, gen, poll, pollLog, batch, fsl, corpus>>

\* what request.json() yields in POST generate: it throws, or the body lacks
\* the title, lacks the theme, or has both
GenerateBodies == {"malformed", "no_title", "no_theme", "ok"}

\* a variant of GenerateDecision without the check of title and theme
GenerateDecisionUnvalidated(userId, body) ==
    IF userId = Null THEN 401
    ELSE IF body = "malformed" THEN 500
    ELSE 0

\* generate/route.ts lines 17-33: the status code POST generate returns
\* before it touches the database, or 0 if the request is accepted
GenerateDecision(userId, body) ==
    IF userId = Null THEN 401
    ELSE IF body = "malformed" THEN 500
    ELSE IF body \in {"no_title", "no_theme"} THEN 400
    ELSE 0

\* POST /api/songs/generate, lines 15-116, by a signed-out caller or by the
\* user who comes to own the song: an early return, 503 when
\* createOrUpdateUser throws, 500 when createSong throws, or the row is
\* created and generateSongInBackground started
PostGenerateRequest ==
    /\ \E userId \in {Null, Owner}, body \in GenerateBodies,
          userSaved \in BOOLEAN, created \in BOOLEAN :
         LET d == GenerateDecision(userId, body)
             code == IF d # 0 THEN d
                     ELSE IF ~userSaved THEN 503
                     ELSE IF ~created THEN 500
                     ELSE 200
         IN  /\ http' = Respond("GENERATE", userId, TRUE, body, "ok", code)
             /\ IF code = 200
                THEN /\ pc = "idle"
                     /\ song.status = "absent"
                     /\ song' = createSong(params.customLyrics)
                     /\ pc' = "bg_start"
                ELSE UNCHANGED <<song, pc>>
    /\ UNCHANGED <<clean, params, gen, poll, pollLog, retry, batch, reqLog, fsl, corpus>>

\* rows the background task leaves behind: created, task submitted,
\* completed, failed
PendingRow == createSong(CustomLyrics)
GeneratingRow ==
    ApplyUpdate([PendingRow EXCEPT !.status = "generating"],
                TaskUpdate([NoGen EXCEPT !.task_id = RealTaskId, !.lyrics = CustomLyrics]))
CompletedRow == ApplyUpdate(GeneratingRow, CompletedUpdate(Clip(1, "succeeded")))
FailedRow == ApplyUpdate(GeneratingRow, PollErrorUpdate(TimedOutMsg))
AccessRows == {NoSong, PendingRow, GeneratingRow, CompletedRow, FailedRow}

----------------------------------------------------------------------------
(* cleanLyricsResponse                                                     *)
(* A text is a sequence of pieces; a regular expression is matched piece   *)
(* by piece.                                                               *)

\* longest text given to cleanLyricsResponse, in pieces
MaxText == 5

\* the pieces: a section tag is "[" then a section name then "]"; "*" is the
\* emphasis character; "la" is a sung word; "This" then " song" is one of the
\* unwanted phrases; a blank line
BlankLine == "\n\n"
Pieces == {"[", "Verse", "]", "*", "la", "This", " song", BlankLine}

\* the section names of the search of line 93 and of the match of line 120
StartNames == {"Verse", "Chorus", "Bridge", "Intro", "Outro"}
EndNames == {"Verse", "Chorus", "Bridge", "Outro"}

\* the unwanted suffixes of lines 102-111, as far as the pieces spell them
UnwantedSuffixes == << <<"This", " song">> >>

\* the pieces that are whitespace; those that start with a letter
IsSpace(piece) == piece = BlankLine
StartsWithLetter(piece) == piece \in {"Verse", "la", "This"}

Texts == UNION { [1..n -> Pieces] : n \in 0..MaxText }

\* the least member of a set of indexes, 0 if there is none
First(I) == IF I = {} THEN 0 ELSE CHOOSE i \in I : \A j \in I : i <= j
Last(I) == IF I = {} THEN 0 ELSE CHOOSE i \in I : \A j \in I : i >= j

\* sub occurs in s at index i
OccursAt(s, sub, i) ==
    /\ i >= 1 /\ i + Len(sub) - 1 <= Len(s)
    /\ \A k \in 1..Len(sub) : s[i + k - 1] = sub[k]

\* String.prototype.trim
trim(s) ==
    LET solid == { i \in 1..Len(s) : ~IsSpace(s[i]) }
    IN  IF solid = {} THEN <<>> ELSE SubSeq(s, First(solid), Last(solid))

\* String.prototype.search(/\[(Verse|Chorus|Bridge|Intro|Outro)/i): 0 for -1
SearchSection(s) ==
    First({ i \in 1..Len(s) - 1 : s[i] = "[" /\ s[i + 1] \in StartNames })

\* the index of the first "*" of s at or after i, 0 if there is none
NextStar(s, i) == First({ k \in i..Len(s) : s[k] = "*" })

\* /\*\*[^*]*\*\*/ matched at i: the index of its last piece, 0 if no match
BoldEnd(s, i) ==
    IF i + 1 <= Len(s) /\ s[i] = "*" /\ s[i + 1] = "*"
    THEN LET j == NextStar(s, i + 2)
         IN  IF j # 0 /\ j + 1 <= Len(s) /\ s[j + 1] = "*" THEN j + 1 ELSE 0
    ELSE 0

\* /\*[^*]*\*/ matched at i
ItalicEnd(s, i) == IF s[i] = "*" THEN NextStar(s, i + 1) ELSE 0

\* replace(/\*\*[^*]*\*\*/g, ""), scanning from i with acc kept so far
RECURSIVE RemoveBold(_, _, _)
RemoveBold(s, i, acc) ==
    IF i > Len(s) THEN acc
    ELSE IF BoldEnd(s, i) # 0 THEN RemoveBold(s, BoldEnd(s, i) + 1, acc)
    ELSE RemoveBold(s, i + 1, Append(acc, s[i]))

\* replace(/\*[^*]*\*/g, "")
RECURSIVE RemoveItalic(_, _, _)
RemoveItalic(s, i, acc) ==
    IF i > Len(s) THEN acc
    ELSE IF ItalicEnd(s, i) # 0 THEN RemoveItalic(s, ItalicEnd(s, i) + 1, acc)
    ELSE RemoveItalic(s, i + 1, Append(acc, s[i]))

\* replace(/<phrase>[^]*$/i, ""): the text is cut where the phrase first occurs
CutSuffix(s, phrase) ==
    LET at == First({ i \in 1..Len(s) : OccursAt(s, phrase, i) })
    IN  IF at = 0 THEN s ELSE SubSeq(s, 1, at - 1)

RECURSIVE CutSuffixes(_, _)
CutSuffixes(s, n) ==
    IF n > Len(UnwantedSuffixes) THEN s
    ELSE CutSuffixes(CutSuffix(s, UnwantedSuffixes[n]), n + 1)

\* lines 119-126: group 1 of the first match of
\* /(\[(?:Verse|Chorus|Bridge|Outro)[^\]]*\][^]*?)(?:\n\n[A-Z]|$)/i, and the
\* text cut after the last occurrence of that group; [A-Z] under the i flag
\* is any letter
CutAfterLastSection(s) ==
    LET open == First({ i \in 1..Len(s) - 1 :
                          /\ s[i] = "[" /\ s[i + 1] \in EndNames
                          /\ \E k \in i + 2..Len(s) : s[k] = "]" })
    IN  IF open = 0 THEN s
        ELSE LET close == First({ k \in open + 2..Len(s) : s[k] = "]" })
                 para  == First({ m \in close + 1..Len(s) - 1 :
                                    s[m] = BlankLine /\ StartsWithLetter(s[m + 1]) })
                 group == SubSeq(s, open, IF para = 0 THEN Len(s) ELSE para - 1)
                 at    == Last({ i \in 1..Len(s) : OccursAt(s, group, i) })
             IN  SubSeq(s, 1, at + Len(group) - 1)

\* lines 92-96: the text from its first section tag on, if it has one
StripPreamble(s) ==
    IF SearchSection(s) # 0 THEN SubSeq(s, SearchSection(s), Len(s)) ELSE s

\* lines 89-129
cleanLyricsResponse(lyrics) ==
    LET started  == StripPreamble(trim(lyrics))
        unstyled == RemoveItalic(RemoveBold(started, 1, <<>>), 1, <<>>)
        uncut    == CutSuffixes(unstyled, 1)
    IN  trim(CutAfterLastSection(uncut))

\* the text-generation service returns a text; optimizeLyricsPrompt trims it
\* and calls cleanLyricsResponse, part_016 lines 75-78
CleanCall ==
    /\ clean.phase = "text"
    /\ clean' = [clean EXCEPT !.phase = "cleaned",
                              !.cleaned = cleanLyricsResponse(trim(clean.text))]
    /\ UNCHANGED <<song, pc, params, gen, poll, pollLog, retry, batch, reqLog,
                   fsl, corpus, http>>

----------------------------------------------------------------------------
(* Specifications *)

\* no handler and no background task is running
InitActors ==
    /\ pc = "idle"
    /\ gen = NoGen
    /\ poll = NoPoll
    /\ pollLog = NoPollLog
    /\ retry = RetryIdle
    /\ batch = BatchIdle
    /\ reqLog = [status |-> {}, create |-> 0, draft |-> 0, manual |-> 0]
    /\ fsl = FslIdle
    /\ http = NoResponse

\* cleanLyricsResponse has not been called
NoClean == [phase |-> "idle", text |-> <<>>, cleaned |-> <<>>]

InitJob ==
    /\ song = NoSong
    /\ clean = NoClean
    /\ InitActors

\* the song's background task, the manual retry route and the batch
\* check-status route, on an empty lyrics_index
Init ==
    /\ InitJob
    /\ corpus = {}
    /\ params \in { r \in Requests : r.theme = <<"h", "o", "l", "i">> }

Next == PostGenerate \/ BgStep \/ FslStep \/ RetryStep \/ BatchStep

Spec == Init /\ [][Next]_vars

\* the background task of a song on its own, for every request and corpus
InitPipeline ==
    /\ InitJob
    /\ corpus \in {AllRows, {}}
    /\ params \in Requests

NextPipeline == PostGenerate \/ BgStep \/ FslStep

SpecPipeline == InitPipeline /\ [][NextPipeline]_vars

\* the background task is an async function: each of its awaits resolves or
\* rejects, and its continuation then runs
FairPipeline == SpecPipeline /\ WF_vars(NextPipeline)

\* findSimilarLyrics called with any theme and count on any corpus
FslCall ==
    /\ fsl.phase = "idle"
    /\ \E queryText \in Themes, matchCount \in 1..MaxCount :
         fsl' = FslEnter("call", queryText, matchCount)
    /\ UNCHANGED <<jobVars, corpus>>

InitRetrieval ==
    /\ InitJob
    /\ corpus \in SUBSET AllRows
    /\ params \in { r \in Requests : r.theme = <<"h", "o", "l", "i">>
                                      /\ r.customLyrics = Null }

NextRetrieval == FslCall \/ FslStep

SpecRetrieval == InitRetrieval /\ [][NextRetrieval]_vars

\* POST generate and the routes of /api/songs/[id] called by anyone, in any
\* order, on a song whose background task is over or not running
InitAccess ==
    /\ InitActors
    /\ clean = NoClean
    /\ song \in AccessRows
    /\ corpus = {}
    /\ params \in { r \in Requests : r.theme = <<"h", "o", "l", "i">>
                                      /\ r.customLyrics = CustomLyrics }

NextAccess ==
    \/ PostGenerateRequest \/ GetSong \/ PatchSong \/ DeleteSong
    \/ RetryRequest \/ RetryAnswer \/ RetryWrite

SpecAccess == InitAccess /\ [][NextAccess]_vars

\* cleanLyricsResponse applied to every text of up to MaxText pieces
InitClean ==
    /\ InitActors
    /\ song = NoSong
    /\ corpus = {}
    /\ params \in { r \in Requests : r.theme = <<"h", "o", "l", "i">>
                                      /\ r.customLyrics = Null }
    /\ clean \in { [phase |-> "text", text |-> t, cleaned |-> <<>>] : t \in Texts }

NextClean == CleanCall

SpecClean == InitClean /\ [][NextClean]_vars

----------------------------------------------------------------------------
(* Properties *)

\* the step in which the updateSong of pollSongCompletion takes effect
PollingOver == pc = "poll_write" /\ pc' = "done"

\* the fixed order of the queries of findSimilarLyrics
TierRank(q) ==
    CASE q = "embedding" -> 1 [] q = "match_lyrics" -> 2
      [] q = "keyword" -> 3 [] OTHER -> 4

\* C1: once the row's status is completed or failed, no write by the
\* background task, by the retry route or by the check-status route changes
\* the status again, however the three interleave
StatusMonotonic ==
    [][song.status \in Terminal => song'.status = song.status]_vars

PollingFailedMessagePersisted ==
    [][(PollingOver /\ pollLog.allThrew /\ pollLog.exhausted)
         => \E e \in {NetworkError, HttpError} :
               \E i \in 1..Len(song'.error_message) :
                  /\ song'.error_message[i] = "Polling failed"
                  /\ \E j \in (i + 1)..Len(song'.error_message) :
                        song'.error_message[j] = e]_vars

CreationFailureGivesMockTask ==
    [][gen'.createOutcome \in CreateOutcomes \ {"ok"}
         => /\ gen'.task_id # NoTask
            /\ StartsWith(gen'.task_id, MockPrefix)
            /\ (pc' # pc /\ song'.status = "failed") => song.status = "failed"]_vars

CreationFailureGivesMockTaskCase ==
    /\ pc = "done"
    /\ gen.createOutcome = "throw"
    /\ StartsWith(gen.task_id, MockPrefix)
    /\ song.task_id = gen.task_id
    /\ song.status = "completed"

\* C6: for a task id that starts with "mock_", the update pollSongCompletion
\* writes leaves the row completed with the fixed mock audio, video and image
\* URLs and duration 180
MockJobCompletes ==
    [][(PollingOver /\ gen.task_id # NoTask /\ StartsWith(gen.task_id, MockPrefix))
         => /\ song'.status = "completed"
            /\ song'.audio_url = "https://cdn1.suno.ai/mock-audio-url.mp3"
            /\ song'.video_url = "https://cdn1.suno.ai/mock-video-url.mp4"
            /\ song'.image_url = "https://cdn1.suno.ai/mock-image-url.jpg"
            /\ song'.duration = <<180>>]_vars

MockJobCompletesCase ==
    /\ pc = "done"
    /\ StartsWith(song.task_id, MockPrefix)
    /\ song.status = "completed"
    /\ song.audio_url = "https://cdn1.suno.ai/mock-audio-url.mp3"
    /\ song.duration = <<180>>
    /\ reqLog.manual > 0

\* C7: no actor ever issues a request to the status endpoint for a task id
\* that starts with "mock_"
NoStatusRequestForMock ==
    \A r \in reqLog.status : ~StartsWith(r[2], MockPrefix)

\* C8: findSimilarLyrics returns at least one and at most matchCount entries
ResultWithinCount ==
    fsl.phase = "returned"
        => /\ Cardinality(fsl.result) >= 1
           /\ Cardinality(fsl.result) <= fsl.matchCount

NotReadyThenSucceeded ==
    [][(PollingOver /\ pollLog.lead202 \in 0..(maxAttempts - 1)
                    /\ pollLog.succeeded # {})
         => /\ song'.status = "completed"
            /\ song'.audio_url \in pollLog.succeeded
            /\ song'.completed_at # Null]_vars

NotReadyThenSucceededCase ==
    /\ pc = "done"
    /\ pollLog.lead202 = 3
    /\ pollLog.succeeded # {}
    /\ song.status = "completed"
    /\ song.audio_url \in pollLog.succeeded
    /\ song.completed_at # Null

\* C11 as stated: when the answer returned by the polling holds a clip in
\* state succeeded, the row is written completed with the clip_id, the URLs and
\* the duration of the first such clip, the duration unchanged
FirstSucceededClipPersistedAsIs ==
    [][(PollingOver /\ pollLog.first # <<>>)
         => LET clip == pollLog.first[1]
            IN  /\ song'.status = "completed"
                /\ song'.clip_id = clip.clip_id
                /\ song'.audio_url = clip.audio_url
                /\ song'.video_url = clip.video_url
                /\ song'.image_url = clip.image_url
                /\ song'.duration # NoDuration
                /\ song'.duration[1] * 10 = clip.duration]_vars

\* C11, amended: when the answer returned by the polling holds a clip in state
\* succeeded, also next to a failed clip, the row is written completed with the
\* clip_id and the URLs of the first such clip, and with its duration rounded
\* to the nearest whole number, or no duration when the clip's is 0
FirstSucceededClipPersisted ==
    [][(PollingOver /\ pollLog.first # <<>>)
         => LET clip == pollLog.first[1]
            IN  /\ song'.status = "completed"
                /\ song'.clip_id = clip.clip_id
                /\ song'.audio_url = clip.audio_url
                /\ song'.video_url = clip.video_url
                /\ song'.image_url = clip.image_url
                /\ IF clip.duration = 0 THEN song'.duration = NoDuration
                   ELSE /\ song'.duration # NoDuration
                        /\ 2 * (song'.duration[1] * 10 - clip.duration) \in -9..10]_vars

FirstSucceededClipPersistedCase ==
    /\ pc = "done"
    /\ pollLog.first # <<>>
    /\ pollLog.hasFailed
    /\ Cardinality(pollLog.succeeded) > 1 \/ pollLog.first[1].duration # 0
    /\ song.status = "completed"
    /\ song.clip_id = pollLog.first[1].clip_id
    /\ song.audio_url = pollLog.first[1].audio_url

\* a status request of the polling loop is answered
LoopAnswered == pc = "poll_loop" /\ (pc' # pc \/ poll' # poll)

\* C12: when a status request of the loop is answered with a clip in state
\* failed and none in state succeeded, the loop returns without another
\* attempt, and the row is written failed with the message "Song generation
\* failed on Suno API", which is not the message written when the attempts
\* ran out
FailedClipEndsPolling ==
    [][/\ (LoopAnswered /\ pollLog'.hasFailed /\ pollLog'.first = <<>>)
            => (pc' = "poll_write" /\ ~pollLog'.exhausted)
       /\ (PollingOver /\ pollLog.hasFailed /\ pollLog.first = <<>>)
            => /\ song'.status = "failed"
               /\ song'.error_message = Msg("Song generation failed on Suno API")
               /\ song'.error_message # TimedOutMsg]_vars

FailedClipEndsPollingCase ==
    /\ pc = "done"
    /\ pollLog.hasFailed /\ pollLog.first = <<>> /\ ~pollLog.exhausted
    /\ song.status = "failed"
    /\ song.error_message = SunoFailedMsg

\* C13: the row's task_id changes only in the step in which the background
\* task writes the task info, from no task id to the id generateCompleteSong
\* returned, hence at most once; a create request is issued only by a step of
\* the background task, at most once; no step of the retry route or of the
\* check-status route issues one or changes task_id
TaskIdWrittenOnce ==
    [][/\ song'.task_id # song.task_id
            => /\ song.task_id = NoTask
               /\ pc = "bg_write_task" /\ pc' = "poll_enter"
               /\ song'.task_id = gen.task_id
       /\ reqLog'.create # reqLog.create
            => (pc' # pc /\ reqLog.create = 0 /\ reqLog'.create = 1)
       /\ (retry' # retry \/ batch' # batch)
            => (song'.task_id = song.task_id /\ reqLog'.create = reqLog.create)]_vars

TaskIdWrittenOnceCase ==
    /\ pc = "done"
    /\ song.task_id = RealTaskId
    /\ reqLog.create = 1
    /\ <<"retry", RealTaskId>> \in reqLog.status
    /\ retry.pc = "idle"
    /\ song.error_message = StillGeneratingMsg

\* a status request of the automatic polling is answered, in the loop or as
\* the final check
PollAnswered == pc \in {"poll_loop", "poll_final"} /\ (pc' # pc \/ poll' # poll)

\* the status the automatic polling gives the row for the answer just received:
\* the one of the update it goes on to write, or the row's own when it goes on
\* polling
PollAppliedStatus == IF pc' = "poll_write" THEN poll'.upd.status ELSE song'.status

OnlyBackgroundTaskWrites ==
    [][song' # song => pc' # pc]_vars

\* the stages of the background task, in the order of the code
StageRank(p) ==
    CASE p = "idle" -> 0
      [] p = "bg_start" -> 1
      [] p = "gen_retrieve" -> 2
      [] p = "gen_draft" -> 3
      [] p = "gen_submit" -> 4
      [] p = "bg_write_task" -> 5
      [] p \in {"poll_enter", "poll_mock", "poll_loop", "poll_final"} -> 6
      [] p = "poll_write" -> 7
      [] OTHER -> 8

\* C16: the background task never goes back to an earlier stage; retrieval
\* runs only once the row is in generating; the drafting request is issued
\* only after retrieval, the create request only after the lyrics are settled
\* and before the task info is written; polling runs only once task_id and
\* lyrics are on the row
StagesInOrder ==
    [][/\ StageRank(pc') >= StageRank(pc)
       /\ (fsl'.caller = "bg" /\ fsl'.phase # "idle")
            => (pc' = "gen_retrieve" /\ song'.status = "generating")
       /\ reqLog'.draft # reqLog.draft
            => (pc = "gen_retrieve" /\ fsl.phase = "returned" /\ pc' = "gen_draft")
       /\ reqLog'.create # reqLog.create
            => (StageRank(pc) < 4 /\ pc' = "gen_submit" /\ Truthy(gen'.lyrics))
       /\ StageRank(pc') \in {4, 5} => song'.task_id = NoTask
       /\ StageRank(pc') >= 6
            => (song'.task_id = gen'.task_id /\ song'.lyrics = gen'.lyrics)]_vars

StagesInOrderCase ==
    /\ pc = "poll_loop"
    /\ poll.attempt > 0
    /\ reqLog.draft = 1 /\ reqLog.create = 1
    /\ gen.draftOutcome = "text"
    /\ song.task_id = RealTaskId
    /\ song.lyrics = gen.lyrics

\* C17: the drafting request is issued at most once for a song; when it
\* threw, the lyrics are the fixed fallback lyric, the create request is issued
\* with them, and they are the lyrics written to the row
DraftFailureFallsBack ==
    /\ reqLog.draft <= 1
    /\ gen.draftOutcome = "throw"
         => /\ reqLog.draft = 1
            /\ gen.lyrics = FallbackLyric
            /\ StageRank(pc) >= 4 /\ reqLog.create = 1
            /\ StageRank(pc) >= 6 => song.lyrics = FallbackLyric

DraftFailureFallsBackCase ==
    /\ pc = "done"
    /\ gen.draftOutcome = "throw"
    /\ gen.createOutcome = "ok"
    /\ song.lyrics = FallbackLyric
    /\ song.task_id = RealTaskId
    /\ reqLog.draft = 1 /\ reqLog.create = 1

\* C18: once the task info is written, the row's reference_songs are the
\* names of the entries whose text went into the drafting request that gave
\* the row's lyrics; they are empty when the lyrics came with the request,
\* which are then stored unchanged without retrieval or drafting, and empty
\* when the lyrics are the fixed fallback lyric
ReferenceSongsMatchLyrics ==
    StageRank(pc) >= 6 =>
        /\ Truthy(params.customLyrics)
             => /\ song.reference_songs = {}
                /\ song.lyrics = params.customLyrics
                /\ reqLog.draft = 0
        /\ gen.draftOutcome = "text"
             => /\ song.reference_songs = gen.referenceSongs
                /\ Cardinality(gen.referenceSongs) = Cardinality(gen.draftTexts)
        /\ song.lyrics = FallbackLyric => song.reference_songs = {}


\* a handler of /api/songs/[id] or of its retry route has run on the song
Requested == http' # http

\* the caller of that handler is signed out; is signed in and is not the
\* owner of the song, which exists
Unauthenticated == http'.userId = Null
NotOwner ==
    /\ http'.userId # Null
    /\ song.status # "absent"
    /\ song.clerk_user_id # http'.userId

\* the handler wrote or deleted nothing and asked the status service nothing
NothingDone == song' = song /\ reqLog' = reqLog /\ retry' = retry

\* C19, as stated: a request to GET, PATCH, DELETE /api/songs/[id] or to
\* POST retry is answered 401 when the caller is signed out and 403 when the
\* caller is signed in and is not the song's owner, and in both cases the row
\* is neither written nor deleted and no status request is made.
DeniedWith401Or403 ==
    [][ Requested =>
          /\ Unauthenticated => http'.code = 401 /\ NothingDone
          /\ NotOwner => http'.code = 403 /\ NothingDone ]_vars

\* C19, amended: the signed-out caller is answered 401; the signed-in caller
\* who is not the owner is answered 403, unless the handler returns before it
\* compares owners: 503 from GET and retry when the database check fails, 500
\* when the PATCH body cannot be parsed or the lookup of the row throws. In
\* every one of these cases the row is neither written nor deleted and no
\* status request is made.
DeniedBeforeAnyEffect ==
    [][ Requested =>
          /\ Unauthenticated => http'.code = 401 /\ NothingDone
          /\ NotOwner =>
                /\ NothingDone
                /\ http'.code =
                     IF http'.route \in {"GET", "RETRY"} /\ ~http'.isSetup THEN 503
                     ELSE IF http'.body = "malformed" \/ http'.lookup = "throw" THEN 500
                     ELSE 403 ]_vars

\* C19, its case: another signed-in user has asked to delete a completed song
\* and was answered 403, the song being still there
DeniedBeforeAnyEffectCase ==
    /\ http.route = "DELETE" /\ http.userId = OtherUser /\ http.code = 403
    /\ song.status = "completed" /\ song.clerk_user_id = Owner


\* the words of the theme findSimilarLyrics was called with
ThemeWords ==
    LET words == split(fsl.queryText)
    IN  { words[i] : i \in { j \in 1..Len(words) : Len(words[j]) > 0 } }

\* of those, the ones the keyword tier searches for: longer than two letters
\* and not a stop word
ThemeKeywords ==
    { toLowerCase(w) : w \in { v \in ThemeWords :
                                  Len(v) > 2 /\ toLowerCase(v) \notin StopWords } }

\* the corpus entries whose name, or whose name or text, contains one of
\* the words
NamedBy(words) == { r \in corpus : \E w \in words : ilike(r.song_name, w) }
MatchedBy(words) ==
    { r \in corpus : \E w \in words :
                        ilike(r.song_name, w) \/ ilike(r.lyrics_text, w) }

KeywordTierAnswered == fsl.phase = "returned" /\ fsl.source = "keyword"

\* C20, as stated: when the keyword tier is the one that answers, every corpus
\* entry whose name contains, in any case, a word of the theme is in the
\* returned result set.
KeywordTierReturnsAllNamed ==
    KeywordTierAnswered => NamedBy(ThemeWords) \subseteq fsl.result

\* C20, amended: when the keyword tier is the one that answers, the result is
\* made of corpus entries whose name or text contains, in any case, a keyword
\* of the theme (a word longer than two letters that is not a stop word); it
\* holds as many of them as there are, up to the count asked for; so every
\* entry whose name contains a keyword is in it whenever the entries matching
\* a keyword are no more than the count asked for.
KeywordTierReturnsUpToCount ==
    KeywordTierAnswered =>
        LET matched == MatchedBy(ThemeKeywords)
        IN  /\ fsl.result \subseteq matched
            /\ Cardinality(fsl.result) = Min(fsl.matchCount, Cardinality(matched))
            /\ Cardinality(matched) <= fsl.matchCount
                  => NamedBy(ThemeKeywords) \subseteq fsl.result

\* C20, its case: the keyword tier has answered with two entries that each
\* have a keyword of the theme in their name
KeywordTierReturnsUpToCountCase ==
    /\ KeywordTierAnswered
    /\ Cardinality(fsl.result) = 2
    /\ fsl.result = NamedBy(ThemeKeywords)


\* where the first section tag of a text starts, 0 if it has none
FirstTag(s) == First({ i \in 1..Len(s) - 1 : s[i] = "[" /\ s[i + 1] \in StartNames })

HasUnwantedPhrase(s) ==
    \E n \in 1..Len(UnwantedSuffixes) :
        \E i \in 1..Len(s) : OccursAt(s, UnwantedSuffixes[n], i)

\* C21: for every text returned by the text-generation service, the output
\* of cleanLyricsResponse has no text before its first section tag and
\* contains none of the unwanted phrases.
CleanedHasNoPreambleNoPhrase ==
    clean.phase = "cleaned" =>
        /\ FirstTag(clean.cleaned) \in {0, 1}
        /\ ~HasUnwantedPhrase(clean.cleaned)

\* C21, the part that holds: the output contains none of the unwanted phrases
CleanedHasNoPhrase ==
    clean.phase = "cleaned" => ~HasUnwantedPhrase(clean.cleaned)


\* pollTaskCompletion is running, on a task id that is a string
PollingString == pc \in {"poll_mock", "poll_loop", "poll_final"}

\* the return statements of pollTaskCompletion
ReturnKinds == {"mock", "loop", "polling_failed", "final", "final_failed"}

\* C22: pollTaskCompletion never throws: for any task id that is a string and
\* any sequence of answers of the status service it ends through one of its
\* return statements. It terminates: every answer either ends the call or
\* uses one of the maxAttempts attempts, and the answer to the final status
\* check ends it.
PollNeverThrows ==
    [][/\ (PollingString /\ pc' = "poll_write")
            => (poll'.how \in ReturnKinds /\ IsUpdate(poll'.upd))
       /\ (PollingString /\ pc' # pc /\ pc' # "poll_write")
            => (pc = "poll_loop" /\ pc' = "poll_final")
       /\ (pc = "poll_loop" /\ pc' \in {"poll_loop", "poll_final"} /\ poll' # poll)
            => (poll'.attempt = poll.attempt + 1 /\ poll'.attempt <= maxAttempts)
       /\ (pc = "poll_final" /\ poll' # poll) => pc' = "poll_write"]_vars

\* C22, its case: every attempt was answered without an error, the final
\* status check threw, and pollTaskCompletion returned its failed result
PollNeverThrowsCase ==
    /\ pc = "poll_write"
    /\ poll.how = "final_failed"
    /\ pollLog.exhausted /\ pollLog.outcome = "error"

\* a status request of the loop is answered with a 202
NotReadyAnswered == LoopAnswered /\ pollLog'.outcome = "202"

\* the answer just received used up one attempt and left lastError as it was
OneAttemptNoError ==
    IF pc' = "poll_write"
    THEN /\ poll.attempt = maxAttempts - 1
         /\ poll'.how = "polling_failed" /\ poll.lastError # <<>>
    ELSE /\ poll'.attempt = poll.attempt + 1
         /\ poll'.lastError = poll.lastError
         /\ poll'.requests = poll.requests + 1

\* C23, as stated: a 202 answer uses up exactly one attempt, leaves lastError
\* unchanged and is followed by the wait of intervalMs.
NotReadyWaitsInterval ==
    [][NotReadyAnswered => (OneAttemptNoError /\ poll'.wait = intervalMs)]_vars

\* C23, amended: a 202 answer uses up exactly one attempt and leaves lastError
\* unchanged; it is followed by the wait of intervalMs, never by the backoff
\* delay, except after the last attempt of the budget, which is followed by
\* no wait.
NotReadyWaitsIntervalInBudget ==
    [][NotReadyAnswered
         => /\ OneAttemptNoError
            /\ poll'.wait = IF poll.attempt < maxAttempts - 1 THEN intervalMs ELSE 0]_vars

\* C23, its case: after a transport error and then a 202 on the fourth
\* attempt, the loop has waited intervalMs and still holds the error
NotReadyWaitsIntervalInBudgetCase ==
    /\ pc = "poll_loop"
    /\ poll.attempt = 4
    /\ pollLog.outcome = "202"
    /\ poll.lastError # <<>>
    /\ poll.wait = intervalMs

\* a status request of the loop threw
ErrorAnswered == LoopAnswered /\ pollLog'.outcome = "error"

\* C24: after a transport error on attempt index a < maxAttempts - 1 the wait
\* is min(intervalMs * 1.5^a, 120000) ms: it never exceeds 120000, it does not
\* decrease from one failed attempt to the next, and after the last attempt
\* of the budget no wait is made.
BackoffCappedAndGrowing ==
    [][ErrorAnswered
         => LET a == poll.attempt
            IN  /\ poll'.wait <= 120000
                /\ a < maxAttempts - 1 /\ a < 4 => poll'.wait * 2^a = intervalMs * 3^a
                /\ a < maxAttempts - 1 /\ a >= 4 => poll'.wait = 120000
                /\ a = maxAttempts - 1 => poll'.wait = 0
                /\ (a < maxAttempts - 1 /\ a > 0 /\ pollLog.outcome = "error")
                     => poll'.wait >= poll.wait]_vars

\* C24, its case: the fourth attempt threw and the loop has waited 101250 ms
BackoffCappedAndGrowingCase ==
    /\ pc = "poll_loop"
    /\ poll.attempt = 4
    /\ pollLog.outcome = "error"
    /\ poll.wait = 101250

\* C25: for a task id that is not a placeholder, pollTaskCompletion issues at
\* most maxAttempts status requests in total.
AtMostMaxAttemptsRequests == poll.requests <= maxAttempts

\* C26: pollTaskCompletion returns the failed result "Polling failed: ..." only
\* if every one of its maxAttempts status requests threw; if the budget ran out
\* and some attempt received a response, it makes the final status check.
PollingFailedOnlyIfAllThrew ==
    [][LoopAnswered
         => /\ poll'.how = "polling_failed" => pollLog'.allThrew
            /\ (pollLog'.exhausted /\ ~pollLog'.allThrew /\ poll'.how # "loop")
                 => pc' = "poll_final"]_vars

\* a status request of the loop is answered with no clip succeeded or failed
\* and some clip in a state other than pending or running
UnknownStateAnswered == LoopAnswered /\ pollLog'.outcome = "other"

\* C27: on such an answer pollTaskCompletion returns at once, whatever is left
\* of its attempts, and the row is then written failed with the message
\* "Song generation timed out".
UnknownStateEndsPolling ==
    [][/\ UnknownStateAnswered
            => /\ pc' = "poll_write" /\ poll'.how = "loop"
               /\ poll'.upd = [status |-> "failed", error_message |-> TimedOutMsg]
       /\ (PollingOver /\ poll.how = "loop" /\ pollLog.outcome = "other")
            => /\ song'.status = "failed"
               /\ song'.error_message = TimedOutMsg]_vars

\* C27, its case: the first answer had a clip in an unknown state and the
\* row is failed with that message
UnknownStateEndsPollingCase ==
    /\ pc = "done"
    /\ pollLog.outcome = "other" /\ ~pollLog.exhausted /\ pollLog.lead202 = 0 - 1
    /\ song.status = "failed"
    /\ song.error_message = TimedOutMsg


\* the drafting call has returned an empty text
DraftedEmpty == gen.draftOutcome = "empty"

\* C28: if drafting returns an empty lyric text, no lyrics being supplied with
\* the request, generateCompleteSong makes no audio-creation request and
\* returns an error result without a task id, and the job then ends in status
\* failed and does not stay in generating.
EmptyDraftFailsJob ==
    [][/\ (pc = "gen_draft" /\ pc' # pc /\ gen'.draftOutcome = "empty")
            => /\ params.customLyrics = Null
               /\ pc' = "bg_write_task"
               /\ gen'.error = "Failed to generate lyrics"
               /\ gen'.task_id = NoTask
               /\ reqLog'.create = reqLog.create
       /\ DraftedEmpty => (reqLog'.create = reqLog.create /\ gen'.task_id = NoTask)
       /\ (DraftedEmpty /\ PollingOver) => song'.status = "failed"
       /\ (DraftedEmpty /\ pc = "done") => song'.status = "failed"]_vars

\* C28, its case: the draft was empty, no create request was made, and the
\* job is over with the row failed
EmptyDraftFailsJobCase ==
    /\ pc = "done"
    /\ DraftedEmpty
    /\ reqLog.create = 0
    /\ song.task_id = NoTask
    /\ song.status = "failed"


\* nothing but the record of the latest request changes
StateUnchanged ==
    UNCHANGED <<song, pc, params, gen, poll, pollLog, retry, batch, reqLog, fsl, corpus>>

\* the owner's request to POST retry gets as far as the checks of task_id and
\* status
RetryReachesChecks ==
    /\ http'.route = "RETRY" /\ http'.userId = Owner
    /\ http'.isSetup /\ http'.lookup = "ok"
    /\ song.status # "absent" /\ song.clerk_user_id = Owner

\* C29: a rejected request leaves all state unchanged: POST generate without
\* title or theme returns 400 without creating a song row or starting a
\* background task, and POST retry on a song with no task_id or with status
\* completed returns 400 without calling the status service or writing the row.
RejectedLeavesState ==
    [][Requested =>
         /\ (/\ http'.route = "GENERATE" /\ http'.userId # Null
             /\ http'.body \in {"no_title", "no_theme"})
              => (http'.code = 400 /\ StateUnchanged)
         /\ (RetryReachesChecks /\ (song.task_id = NoTask \/ song.status = "completed"))
              => (http'.code = 400 /\ StateUnchanged)
         /\ http'.code = 400 => StateUnchanged]_vars

\* C29, its case: a request without a title was answered 400 and there is
\* still no song row and no background task
RejectedLeavesStateCase ==
    /\ http.route = "GENERATE" /\ http.body = "no_title" /\ http.code = 400
    /\ song.status = "absent"
    /\ pc = "idle"


\* a message that is neither null nor the empty string
NonEmptyMsg(m) == m # NullMsg /\ \A i \in 1..Len(m) : m[i] # ""

\* what the statuses completed and failed say about the other columns of a row
RowConsistent(row) ==
    /\ row.status = "completed" =>
          (row.completed_at # Null /\ row.error_message = NullMsg)
    /\ row.status = "failed" => NonEmptyMsg(row.error_message)

\* an update about to be sent that sets status pending
WritesPending(u) == IsUpdate(u) /\ "status" \in DOMAIN u /\ u.status = "pending"

\* C30: after every step, a job with status completed has completed_at set and
\* error_message null and a job with status failed has a non-empty
\* error_message; a job is created with status pending, no row comes to
\* status pending from another status, and no update the background task, the
\* retry route or check-status is about to send sets status pending.
RowConsistentPendingOnce ==
    [][/\ RowConsistent(song')
       /\ (song.status = "absent" /\ song' # song) => song'.status = "pending"
       /\ song'.status = "pending" => song.status \in {"absent", "pending"}
       /\ ~WritesPending(poll'.upd)
       /\ ~WritesPending(retry'.upd)
       /\ ~WritesPending(batch'.upd)]_vars

\* C30, its case: the retry route was used and the row is completed, with
\* completed_at set and the error message of earlier writes cleared
RowConsistentPendingOnceCase ==
    /\ song.status = "completed"
    /\ song.completed_at # Null /\ song.error_message = NullMsg
    /\ reqLog.manual > 0
    /\ pc = "done"

====
